---------------------------- MODULE Spec2Model ----------------------------
(***************************************************************************)
(* A model of agentAru's routing / tool-loop core:                         *)
(*   - the memory adapter  (src/src/memory/memory_manager.py)              *)
(*   - the MCP client, manager and tool registry                           *)
(*                         (src/src/mcp_integration/*.py)                  *)
(*   - the agentic tool loop of the CLI and of the web UI                  *)
(*                         (src/run_agent.py, src/app.py)                  *)
(*   - the supervisor and the three handlers of the routing graph          *)
(*                         (src/src/agents/*.py, src/src/core/agent_graph.py)*)
(* Each component has its own specification (SpecMemory, SpecTools,        *)
(* SpecLoop, SpecGraph); the variables of the other components keep their  *)
(* construction-time values in it.                                         *)
(***************************************************************************)
EXTENDS Integers, Sequences, FiniteSets, TLC

VARIABLES
    \* ---- memory adapter (AgentMemoryManager) ----
    decay_days,            \* self.decay_days
    relevance_threshold,   \* self.relevance_threshold, in thousandths
    memory_available,      \* self.memory is not None
    mem_pc,                \* "idle" | "returned": position of the caller of search_memories
    last_search,           \* the arguments of the search_memories call that returned last
    backend_hits,          \* what self.memory.search returned to that call
    decayed,               \* the records handed to _apply_decay, as it left them (mutated in place)
    results,               \* what search_memories returned
    \* ---- MCP client (MCPClient) ----
    sessions,              \* self.sessions: server name -> connection id of its session
    client_tools,          \* self.tools: server name -> the tool names cached at connect
    stdio_contexts,        \* self._stdio_contexts: server name -> connection id
    session_contexts,      \* self._session_contexts: server name -> connection id
    processes,             \* the server processes that run: connection id -> server name
    next_conn,             \* the number of connections opened so far
    \* ---- MCP manager and tool manager ----
    tools_registry,        \* self.tools_registry, in insertion order: <<[server, tools]>>
    initialized,           \* MCPManager._initialized
    last_registered,       \* server name -> [prefix, tools] of its last register_server_tools
    reregistered,          \* <<server>> when the last step registered that server again
                           \* with the prefix and tool list of its last registration
    tool_call,             \* the execute_tool call in progress: argument, result, transport calls
    \* ---- agentic tool loop of one user turn (run_agent.py, app.py) ----
    loop_kind,             \* "cli" for run_agent.py, "web" for app.py
    turn,                  \* "idle", "running", "answered" or "error"
    phase,                 \* "Idle", "AwaitingModel", "ExecutingTools" or "Done"
    iteration,             \* the loop variable of for iteration in range(max_iterations)
    model_calls,           \* the invocations of the model made in this turn
    messages,              \* the message history of the turn
    response,              \* the variable response: none, or the last model response
    pending,               \* the tool calls of the response not yet executed
    response_text,         \* app.py's variable response_text: unbound, or its value
    answer,                \* the answer shown to the user in this turn, if any
    \* ---- routing graph (src/core/agent_graph.py) ----
    agents,                \* the agents set by set_agents; the others are placeholders
    state,                 \* the AgentState of the turn
    node,                  \* the node the graph runs next: "idle" before a turn, "END" after
    router_steps,          \* the Router steps taken in this turn
    last_step,             \* the last node step: node, state before, what the calls did,
                           \* the memories its search returned, the prompt of a handler
    store_writes,          \* the memory.add calls of this turn that stored something
    thread_id,             \* the checkpoint key of the turn: config's thread_id
    \* ---- startup: the configuration files and their loaders ----
    servers_file,          \* src/mcp_integration/mcp_servers.yaml: absent, or its content
    models_file,           \* src/config/models.yaml: absent, or its content
    config,                \* MCPConfigManager.config, once the manager is constructed
    models,                \* ModelManager.models, once the manager is constructed
    startup,               \* "start", "config_loaded", "ready" or "failed"
    last_load              \* the last loader that ran: the file it found, whether it raised

mem_vars == <<decay_days, relevance_threshold, memory_available, mem_pc,
              last_search, backend_hits, decayed, results>>

client_vars == <<sessions, client_tools, stdio_contexts,
                 session_contexts, processes, next_conn>>

manager_vars == <<tools_registry, initialized, last_registered, reregistered, tool_call>>

loop_vars == <<loop_kind, turn, phase, iteration, model_calls, messages, response,
               pending, response_text, answer>>

graph_vars == <<agents, state, node, router_steps, last_step, store_writes, thread_id>>

startup_vars == <<servers_file, models_file, config, models, startup, last_load>>

vars == <<mem_vars, client_vars, manager_vars, loop_vars, graph_vars, startup_vars>>

\* ------------------------------------------------------------------------
\* Generic helpers
\* ------------------------------------------------------------------------
None == "None"

Max(a, b) == IF a >= b THEN a ELSE b

Min(a, b) == IF a <= b THEN a ELSE b

Range(s) == {s[i] : i \in 1..Len(s)}

\* s[:n] of Python for n >= 0
Take(s, n) == SubSeq(s, 1, Min(n, Len(s)))

SeqsUpTo(S, n) == UNION {[1..k -> S] : k \in 0..n}

\* ------------------------------------------------------------------------
\* Scores.  Python computes with floats; the model computes the same
\* expressions exactly, as fractions n/d with d > 0.  Base scores and the
\* threshold are given in thousandths (1.0 is 1000).
\* ------------------------------------------------------------------------
Frac(n, d) == [n |-> n, d |-> d]

FracGeq(a, b) == a.n * b.d >= b.n * a.d

FracEq(a, b) == a.n * b.d = b.n * a.d

FracMul(a, b) == Frac(a.n * b.n, a.d * b.d)

\* ------------------------------------------------------------------------
\* Memory adapter: src/src/memory/memory_manager.py
\* ------------------------------------------------------------------------
\* Bounds of the model
MaxHits == 2

MaxLimit == 2

\* config.get("decay_days", 90), config.get("relevance_threshold", 0.3)
DefaultDecayDays == 90

DefaultThreshold == 300

\* The settings of a memory manager: the defaults, a shorter decay window
\* and a lower threshold.  The decay window is a positive number of days
\* (settings.memory_decay_days).
MemorySettings ==
    {[decay_days |-> DefaultDecayDays, relevance_threshold |-> DefaultThreshold],
     [decay_days |-> 45, relevance_threshold |-> DefaultThreshold],
     [decay_days |-> DefaultDecayDays, relevance_threshold |-> 100]}

\* Ages of the records, in whole days: (now - timestamp).days
Ages == {0, 45, 90, 100}

\* Base scores as the backend computes them (a similarity), in thousandths.
\* The code takes whatever the backend reports; a cosine similarity can be
\* negative.
ScoreValues == {-500, 500, 1000}

\* memory_type of the callers: None (supervisor, CLI) or "semantic" (handlers)
TypeFilters == {None, "semantic"}

MemoryTypes == {"semantic", "episodic"}

MemoryTexts == {"m1"}

\* An optional value: <<>> when the key is absent, <<v>> when it holds v.
Absent == <<>>

Some(v) == <<v>>

\* A record as self.memory.search returns it.  ts holds the age in days of
\* metadata["timestamp"], and is Absent when the metadata has no timestamp.
MemoryRecords ==
    [memory : MemoryTexts, type : MemoryTypes,
     ts : {Absent} \cup {Some(a) : a \in Ages},
     score : {Frac(v, 1) : v \in ScoreValues}, decay_factor : {Absent}]

HitLists == SeqsUpTo(MemoryRecords, MaxHits)

\* A decay without the floor: decay_factor = 1 - (days_old / self.decay_days)
DecayFactor_NoFloor(days_old, window) ==
    Frac(10 * (window - days_old), 10 * window)

\* decay_factor = max(0.1, 1 - (days_old / self.decay_days)), for decay_days > 0
DecayFactor(days_old, window) ==
    Frac(Max(window, 10 * (window - days_old)), 10 * window)

\* The body of the loop of _apply_decay for one timestamped record: the
\* record is changed in place.
DecayRecord(m, window) ==
    LET decay_factor == DecayFactor(m.ts[1], window)
    IN  [m EXCEPT !.score = FracMul(m.score, decay_factor),
                  !.decay_factor = Some(decay_factor)]

\* The records of the argument of _apply_decay after the call.
DecayInPlace(memories, window) ==
    [i \in 1..Len(memories) |->
        IF memories[i].ts = Absent THEN memories[i]
        ELSE DecayRecord(memories[i], window)]

\* A decay that holds the records without a timestamp to the threshold too
KeepDecayed_AlsoUntimestamped(m, threshold) == FracGeq(m.score, Frac(threshold, 1))

\* A decay that keeps every record, whatever its score
KeepDecayed_NoThreshold(m, threshold) == TRUE

\* if memory["score"] >= self.relevance_threshold: keep
KeepDecayed(m, threshold) ==
    m.ts = Absent \/ FracGeq(m.score, Frac(threshold, 1))

\* _apply_decay, on the records it has already changed in place
ApplyDecay(memories, window, threshold) ==
    SelectSeq(DecayInPlace(memories, window),
              LAMBDA m : KeepDecayed(m, threshold))

\* A search that forgets to sort
SortByScore_Unsorted(s) == s

\* sorted(results, key=lambda x: x.get("score", 0), reverse=True): a stable
\* sort, so records with equal scores keep their order.
RECURSIVE SortByScore(_)
SortByScore(s) ==
    IF Len(s) <= 1 THEN s
    ELSE LET rest == SortByScore(Tail(s))
             x    == Head(s)
             \* x goes before the first record of rest whose score is not above x's
             before == SelectSeq(rest, LAMBDA y : ~FracGeq(x.score, y.score))
             after  == SelectSeq(rest, LAMBDA y : FracGeq(x.score, y.score))
         IN  before \o <<x>> \o after

FilterByType(hits, memory_type) ==
    IF memory_type = None THEN hits
    ELSE SelectSeq(hits, LAMBDA r : r.type = memory_type)

\* The list handed to the sort by search_memories
AfterDecay(hits, memory_type, apply_decay, window, threshold) ==
    IF apply_decay THEN ApplyDecay(FilterByType(hits, memory_type), window, threshold)
    ELSE FilterByType(hits, memory_type)

\* search_memories: outcome tells whether self.memory.search returned ("ok",
\* with hits) or raised ("raises").
SearchMemories(available, outcome, hits, memory_type, limit, apply_decay, window, threshold) ==
    IF ~available THEN <<>>
    ELSE IF outcome = "raises" THEN <<>>
    ELSE Take(SortByScore(AfterDecay(hits, memory_type, apply_decay, window, threshold)),
              limit)

NoSearch == [query |-> None, memory_type |-> None, limit |-> 0, apply_decay |-> FALSE,
             outcome |-> None]

InitMemoryIdle ==
    /\ mem_pc = "idle"
    /\ last_search = NoSearch
    /\ backend_hits = <<>>
    /\ decayed = <<>>
    /\ results = <<>>

InitMemory ==
    /\ \E cfg \in MemorySettings :
          /\ decay_days = cfg.decay_days
          /\ relevance_threshold = cfg.relevance_threshold
    /\ memory_available \in BOOLEAN
    /\ InitMemoryIdle

\* One call of search_memories(query, memory_type, limit, apply_decay).
search_memories(query, memory_type, limit, apply_decay, outcome, hits) ==
    /\ mem_pc = "idle"
    /\ mem_pc' = "returned"
    /\ last_search' = [query |-> query, memory_type |-> memory_type,
                       limit |-> limit, apply_decay |-> apply_decay,
                       outcome |-> IF memory_available THEN outcome ELSE None]
    /\ backend_hits' = IF memory_available /\ outcome = "ok" THEN hits ELSE <<>>
    /\ decayed' = IF memory_available /\ outcome = "ok" /\ apply_decay
                  THEN DecayInPlace(FilterByType(hits, memory_type), decay_days)
                  ELSE <<>>
    /\ results' = SearchMemories(memory_available, outcome, hits, memory_type, limit,
                                 apply_decay, decay_days, relevance_threshold)
    /\ UNCHANGED <<decay_days, relevance_threshold, memory_available>>
    /\ UNCHANGED <<client_vars, manager_vars, loop_vars, graph_vars, startup_vars>>

\* The caller has used the list and asks again.
search_done ==
    /\ mem_pc = "returned"
    /\ mem_pc' = "idle"
    /\ last_search' = NoSearch
    /\ backend_hits' = <<>>
    /\ decayed' = <<>>
    /\ results' = <<>>
    /\ UNCHANGED <<decay_days, relevance_threshold, memory_available>>
    /\ UNCHANGED <<client_vars, manager_vars, loop_vars, graph_vars, startup_vars>>

\* The callers and what the backend answers them.
search_ok ==
    /\ mem_pc = "idle"
    /\ memory_available
    /\ \E memory_type \in TypeFilters, limit \in 0..MaxLimit,
          apply_decay \in BOOLEAN, hits \in HitLists :
            search_memories("q", memory_type, limit, apply_decay, "ok", hits)

search_raises ==
    /\ mem_pc = "idle"
    /\ memory_available
    /\ \E memory_type \in TypeFilters, limit \in 0..MaxLimit,
          apply_decay \in BOOLEAN :
            search_memories("q", memory_type, limit, apply_decay, "raises", <<>>)

\* self.memory is None: the backend is not asked.
search_unavailable ==
    /\ mem_pc = "idle"
    /\ ~memory_available
    /\ \E memory_type \in TypeFilters, limit \in 0..MaxLimit,
          apply_decay \in BOOLEAN :
            search_memories("q", memory_type, limit, apply_decay, None, <<>>)

NextMemory ==
    \/ search_ok
    \/ search_raises
    \/ search_unavailable
    \/ search_done


\* ------------------------------------------------------------------------
\* MCP client, manager and tool registry: src/src/mcp_integration
\* ------------------------------------------------------------------------
\* Bound of the model: the connections opened in one run
MaxConnects == 2

\* A Python dict is a function on its keys.
EmptyDict == [k \in {} |-> None]

Put(d, k, v) == [x \in (DOMAIN d) \cup {k} |-> IF x = k THEN v ELSE d[x]]

Del(d, k) == [x \in (DOMAIN d) \ {k} |-> d[x]]

\* The configured servers (MCPConfigManager._create_default_config)
Servers == {"filesystem", "web-search"}

\* A name is the sequence of its parts between underscores: read_file is
\* <<"read", "file">>, and f"{prefix}_{name}" is prefix \o name.
read_file == <<"read", "file">>

write_file == <<"write", "file">>

search_web == <<"search", "web">>

\* The tool list a server answers list_tools with
Offers(server) ==
    IF server = "filesystem" THEN {<<read_file, write_file>>}
    ELSE {<<search_web>>}

\* The prefixes register_server_tools is called with for a server: none
\* (prefix=None), or the server's name as MCPManager.connect_server passes it
Prefixes(server_name) == {<<>>, <<server_name>>}

\* tool_name = f"{prefix}_{mcp_tool.name}" if prefix else mcp_tool.name
ExposedName(prefix, name) == IF prefix = <<>> THEN name ELSE prefix \o name

\* MCPToolWrapper(name=..., server_name=..., tool_name=...)
MCPToolWrapper(prefix, server_name, name) ==
    [name |-> ExposedName(prefix, name), server_name |-> server_name, tool_name |-> name]

\* MCPClient.list_tools(server_name)
ListTools(tools, server_name) ==
    IF server_name \in DOMAIN tools THEN tools[server_name] ELSE <<>>

\* The list register_server_tools builds
LangchainTools(tools, server_name, prefix) ==
    LET mcp_tools == ListTools(tools, server_name)
    IN  [i \in 1..Len(mcp_tools) |-> MCPToolWrapper(prefix, server_name, mcp_tools[i])]

RegistryServers(registry) == {registry[i].server : i \in 1..Len(registry)}

\* A registration that appends to the server's list instead of replacing it
RegistryPut_Append(registry, server_name, lc_tools) ==
    IF server_name \in RegistryServers(registry)
    THEN [i \in 1..Len(registry) |->
            IF registry[i].server = server_name
            THEN [registry[i] EXCEPT !.tools = @ \o lc_tools]
            ELSE registry[i]]
    ELSE Append(registry, [server |-> server_name, tools |-> lc_tools])

\* self.tools_registry[server_name] = langchain_tools: a dict keeps the place
\* of a key it already holds and puts a new key last.
RegistryPut(registry, server_name, lc_tools) ==
    IF server_name \in RegistryServers(registry)
    THEN [i \in 1..Len(registry) |->
            IF registry[i].server = server_name
            THEN [registry[i] EXCEPT !.tools = lc_tools]
            ELSE registry[i]]
    ELSE Append(registry, [server |-> server_name, tools |-> lc_tools])

RECURSIVE Flatten(_)
Flatten(ss) == IF ss = <<>> THEN <<>> ELSE Head(ss) \o Flatten(Tail(ss))

\* MCPToolManager.get_tools(server_name=None): all tools of all servers
get_tools(registry) == Flatten([i \in 1..Len(registry) |-> registry[i].tools])

\* MCPToolManager.get_tools(server_name)
get_tools_of(registry, server_name) ==
    IF server_name \in RegistryServers(registry)
    THEN (CHOOSE e \in Range(registry) : e.server = server_name).tools
    ELSE <<>>

\* A lookup that takes any registered tool when the name matches none
get_tool_by_name_AnyTool(registry, tool_name) ==
    LET all_tools == get_tools(registry)
    IN  IF all_tools = <<>> THEN <<>> ELSE <<all_tools[1]>>

\* MCPToolManager.get_tool_by_name: the first tool of that name, as <<tool>>,
\* or <<>> for None
get_tool_by_name(registry, tool_name) ==
    LET all_tools == get_tools(registry)
        hits == SelectSeq(all_tools, LAMBDA t : t.name = tool_name)
    IN  IF hits = <<>> THEN <<>> ELSE <<hits[1]>>

ExposedNames(registry) == {t.name : t \in Range(get_tools(registry))}


\* ---- MCPClient ----
ConnectFailures == {"none", "spawn", "session", "initialize", "list_tools"}

\* The server processes left when self._stdio_contexts[server_name] is
\* assigned anew.  The context it held is not exited, only dropped: whether
\* its process goes on running or is ended when the runtime collects the
\* context is not determined by the code, and old_ends tells which.
AfterOverwrite(server_name, old_ends) ==
    IF old_ends /\ server_name \in DOMAIN stdio_contexts
    THEN Del(processes, stdio_contexts[server_name])
    ELSE processes

\* MCPClient.connect_server(server_name, ...): fail names the call that
\* raises, offered is the answer of session.list_tools().  Every assignment
\* made before the raising call stays.
ClientConnect(server_name, offered, fail, old_ends) ==
    LET conn == next_conn + 1
    IN  /\ IF fail = "spawn"
           THEN UNCHANGED <<stdio_contexts, processes, next_conn>>
           ELSE /\ stdio_contexts' = Put(stdio_contexts, server_name, conn)
                /\ processes' = Put(AfterOverwrite(server_name, old_ends), conn, server_name)
                /\ next_conn' = conn
        /\ session_contexts' =
              IF fail \in {"spawn", "session"} THEN session_contexts
              ELSE Put(session_contexts, server_name, conn)
        /\ sessions' =
              IF fail \in {"spawn", "session", "initialize"} THEN sessions
              ELSE Put(sessions, server_name, conn)
        /\ client_tools' =
              IF fail = "none" THEN Put(client_tools, server_name, offered)
              ELSE client_tools

DisconnectOutcomes ==
    {"ok", "session_exit_raises", "stdio_exit_raises_live", "stdio_exit_raises_killed"}

ClientState ==
    [sessions |-> sessions, client_tools |-> client_tools,
     stdio_contexts |-> stdio_contexts, session_contexts |-> session_contexts,
     processes |-> processes]

\* The process of server_name's stdio context ends
EndProcess(cs, server_name) ==
    IF server_name \in DOMAIN cs.stdio_contexts
    THEN Del(cs.processes, cs.stdio_contexts[server_name])
    ELSE cs.processes

\* MCPClient.disconnect_server(server_name) on the client state cs.  outcome
\* names the __aexit__ that raises; what comes after it in the try block is
\* skipped.  When the stdio context's exit raises, its process may or may not
\* have ended.
DisconnectServer(cs, server_name, outcome) ==
    IF server_name \notin DOMAIN cs.sessions THEN cs
    ELSE IF server_name \in DOMAIN cs.session_contexts /\ outcome = "session_exit_raises"
    THEN cs
    ELSE LET cs1 == [cs EXCEPT !.session_contexts = Del(@, server_name)]
         IN  IF /\ server_name \in DOMAIN cs1.stdio_contexts
                /\ outcome \in {"stdio_exit_raises_live", "stdio_exit_raises_killed"}
             THEN [cs1 EXCEPT !.processes =
                      IF outcome = "stdio_exit_raises_killed"
                      THEN EndProcess(cs1, server_name) ELSE @]
             ELSE [cs1 EXCEPT !.processes = EndProcess(cs1, server_name),
                              !.stdio_contexts = Del(@, server_name),
                              !.sessions = Del(@, server_name),
                              !.client_tools = Del(@, server_name)]

\* MCPClient.close_all: disconnect_server for every key of self.sessions
RECURSIVE CloseAll(_, _, _)
CloseAll(cs, names, outcomes) ==
    IF names = {} THEN cs
    ELSE LET n == CHOOSE x \in names : TRUE
         IN  CloseAll(DisconnectServer(cs, n, outcomes[n]), names \ {n}, outcomes)

SetClientState(cs) ==
    /\ sessions' = cs.sessions
    /\ client_tools' = cs.client_tools
    /\ stdio_contexts' = cs.stdio_contexts
    /\ session_contexts' = cs.session_contexts
    /\ processes' = cs.processes

\* ---- MCPToolManager.register_server_tools ----
\* The last registration of server_name had this prefix and the server's tool
\* list has not changed since
SameRegistration(server_name, prefix, tools) ==
    /\ server_name \in DOMAIN last_registered
    /\ last_registered[server_name].prefix = prefix
    /\ last_registered[server_name].tools = ListTools(tools, server_name)

RegisterServerTools(server_name, prefix, tools) ==
    /\ tools_registry' =
          RegistryPut(tools_registry, server_name, LangchainTools(tools, server_name, prefix))
    /\ last_registered' =
          Put(last_registered, server_name,
              [prefix |-> prefix, tools |-> ListTools(tools, server_name)])
    /\ reregistered' =
          IF SameRegistration(server_name, prefix, tools) THEN <<server_name>> ELSE <<>>

\* A direct call of tool_manager.register_server_tools(server_name, prefix)
register_server_tools(server_name, prefix) ==
    /\ ~tool_call.called
    /\ RegisterServerTools(server_name, prefix, client_tools)
    /\ UNCHANGED <<client_vars, initialized, tool_call, mem_vars, loop_vars, graph_vars, startup_vars>>

\* ---- MCPManager ----
\* MCPManager.connect_server(server_config): connect, then register with the
\* server's name as prefix; a failed connect is caught and nothing is
\* registered.
manager_connect_server(server_name, offered, fail, old_ends) ==
    /\ ~tool_call.called
    /\ next_conn < MaxConnects
    /\ ClientConnect(server_name, offered, fail, old_ends)
    /\ IF fail = "none"
       THEN RegisterServerTools(server_name, <<server_name>>, client_tools')
       ELSE /\ reregistered' = <<>>
            /\ UNCHANGED <<tools_registry, last_registered>>
    /\ UNCHANGED <<initialized, tool_call, mem_vars, loop_vars, graph_vars, startup_vars>>

\* The choice is open only when a context is overwritten
OldEnds(server_name, fail) ==
    IF fail # "spawn" /\ server_name \in DOMAIN stdio_contexts THEN BOOLEAN ELSE {FALSE}

\* MCPManager.connect_server_by_name(server_name) for an enabled server of
\* the configuration (run_agent.py:34-35, main_mcp.py:140)
connect_server_by_name ==
    \E server_name \in Servers, fail \in ConnectFailures :
        \E offered \in Offers(server_name), old_ends \in OldEnds(server_name, fail) :
            manager_connect_server(server_name, offered, fail, old_ends)

\* MCPManager.initialize(auto_connect): no server of the default
\* configuration has auto_connect set, so none is connected here.
initialize ==
    /\ ~tool_call.called
    /\ ~initialized
    /\ initialized' = TRUE
    /\ reregistered' = <<>>
    /\ UNCHANGED <<client_vars, tools_registry, last_registered, tool_call, mem_vars, loop_vars, graph_vars, startup_vars>>

\* MCPManager.disconnect_server(server_name)
disconnect_server ==
    /\ ~tool_call.called
    /\ \E server_name \in DOMAIN sessions, outcome \in DisconnectOutcomes :
        /\ SetClientState(DisconnectServer(ClientState, server_name, outcome))
        /\ reregistered' = <<>>
        /\ UNCHANGED <<next_conn, tools_registry, initialized, last_registered,
                       tool_call, mem_vars, loop_vars, graph_vars, startup_vars>>

\* MCPManager.shutdown()
shutdown ==
    /\ ~tool_call.called
    /\ \E outcomes \in [DOMAIN sessions -> DisconnectOutcomes] :
        /\ SetClientState(CloseAll(ClientState, DOMAIN sessions, outcomes))
        /\ initialized' = FALSE
        /\ reregistered' = <<>>
        /\ UNCHANGED <<next_conn, tools_registry, last_registered, tool_call, mem_vars, loop_vars, graph_vars, startup_vars>>


\* ---- Tool-invocation bridge: MCPToolWrapper._arun, execute_tool ----
\* A text is the sequence of its pieces.
ErrorMarker == "Error: "

HasErrorMarker(text) == Len(text) > 0 /\ text[1] = ErrorMarker

\* What session.call_tool does: it raises, or returns a result with content
\* items, or returns a result without a content attribute.
TextItem(t) == [type |-> "text", text |-> t]

ImageItem == [type |-> "image", text |-> "<data>"]

\* The two filesystem servers of the repository, and what the read_file tool
\* of each answers for a path that does not exist under BASE_DIR.  A text is
\* the sequence of its pieces.
FilesystemServers == {"filesystem_server", "filesystem_server_v2"}

MissingPath == "notes/missing.txt"

ReadFileMissing(server, path) ==
    IF server = "filesystem_server"
    THEN <<TextItem(<<"File not found: ", path>>)>>
    ELSE <<TextItem(<<ErrorMarker, "File not found: ", path>>)>>

ContentLists ==
    {ReadFileMissing(server, MissingPath) : server \in FilesystemServers}
        \cup {<<TextItem(<<"ok">>), ImageItem, TextItem(<<"more">>)>>}

TransportOutcomes ==
    {[kind |-> "raises", content |-> <<>>], [kind |-> "no_content", content |-> <<>>]}
        \cup {[kind |-> "content", content |-> c] : c \in ContentLists}

\* "\n".join(parts)
RECURSIVE JoinLines(_)
JoinLines(parts) ==
    IF parts = <<>> THEN <<>>
    ELSE IF Len(parts) = 1 THEN parts
    ELSE <<Head(parts), "\n">> \o JoinLines(Tail(parts))

\* "\n".join(text_parts), each part being the sequence of its pieces
RECURSIVE JoinTexts(_)
JoinTexts(parts) ==
    IF parts = <<>> THEN <<>>
    ELSE IF Len(parts) = 1 THEN Head(parts)
    ELSE Head(parts) \o <<"\n">> \o JoinTexts(Tail(parts))

\* MCPClient.call_tool on a connected server: the dict it returns
CallToolResult(outcome) ==
    IF outcome.kind = "raises"
    THEN [success |-> FALSE, has_content |-> FALSE, content |-> <<>>]
    ELSE IF outcome.kind = "content"
    THEN [success |-> TRUE, has_content |-> TRUE, content |-> outcome.content]
    ELSE [success |-> TRUE, has_content |-> FALSE, content |-> <<>>]

\* MCPToolWrapper._arun on a successful call: the joined text parts, or
\* str(result) when the result has no content
ARunSuccess(result) ==
    IF result.has_content
    THEN LET texts == SelectSeq(result.content, LAMBDA item : item.type = "text")
         IN  JoinTexts([i \in 1..Len(texts) |-> texts[i].text])
    ELSE <<"<result>">>

\* _arun with the marker left off the text of a failed call
ARunResult_Unmarked(result) ==
    IF result.success THEN ARunSuccess(result) ELSE <<"<transport failure>">>

\* MCPToolWrapper._arun on the dict call_tool returned
ARunResult(result) ==
    IF result.success THEN ARunSuccess(result) ELSE <<ErrorMarker, "<transport failure>">>

\* _arun without call_tool's test of the sessions
ARun_Unguarded(tool, connected, outcome) == ARunResult(CallToolResult(outcome))

\* MCPToolWrapper._arun: the text it returns.  connected tells whether the
\* wrapper's server is a key of the client's sessions.
ARun(tool, connected, outcome) ==
    IF ~connected
    THEN <<ErrorMarker, "Not connected to server: ", tool.server_name>>
    ELSE ARunResult(CallToolResult(outcome))

\* MCPToolManager.execute_tool: the text it returns
ExecuteTool(registry, connected_servers, tool_name, outcome) ==
    LET tool == get_tool_by_name(registry, tool_name)
    IN  IF tool = <<>>
        THEN <<ErrorMarker, "Tool '">> \o tool_name \o <<"' not found">>
        ELSE ARun(tool[1], tool[1].server_name \in connected_servers, outcome)

\* The calls of session.call_tool that execute_tool makes
TransportCalls(registry, client_sessions, tool_name) ==
    LET tool == get_tool_by_name(registry, tool_name)
    IN  IF tool = <<>> THEN <<>>
        ELSE IF tool[1].server_name \notin DOMAIN client_sessions THEN <<>>
        ELSE <<[conn |-> client_sessions[tool[1].server_name], tool |-> tool[1].tool_name]>>

\* The names a model may ask for: exposed names, bare names, unknown ones and
\* the empty name
RequestedNames ==
    {<<"filesystem">> \o read_file, <<"web-search">> \o search_web, read_file,
     <<"delete", "file">>, <<>>}

\* What the transport may do in execute_tool(tool_name, ...): any outcome when
\* the call reaches session.call_tool, none to choose otherwise
OutcomesOf(tool_name) ==
    IF TransportCalls(tools_registry, sessions, tool_name) # <<>>
    THEN TransportOutcomes
    ELSE {[kind |-> "raises", content |-> <<>>]}

\* What the transport did in a call of execute_tool, "none" when the call did
\* not reach session.call_tool
OutcomeSeen(registry, client_sessions, tool_name, outcome) ==
    IF TransportCalls(registry, client_sessions, tool_name) = <<>> THEN "none"
    ELSE outcome.kind

\* The content items the session returned to the call, none when the call
\* did not reach session.call_tool
ContentSeen(registry, client_sessions, tool_name, outcome) ==
    IF TransportCalls(registry, client_sessions, tool_name) = <<>> THEN <<>>
    ELSE outcome.content

NoToolCall ==
    [called |-> FALSE, tool_name |-> <<>>, registry |-> <<>>, text |-> <<>>,
     calls |-> <<>>, outcome |-> "none", content |-> <<>>]

\* One call of execute_tool(tool_name, arguments) through the manager
execute_tool(tool_name, outcome) ==
    /\ ~tool_call.called
    /\ tool_call' =
          [called |-> TRUE, tool_name |-> tool_name, registry |-> tools_registry,
           text |-> ExecuteTool(tools_registry, DOMAIN sessions, tool_name, outcome),
           calls |-> TransportCalls(tools_registry, sessions, tool_name),
           outcome |-> OutcomeSeen(tools_registry, sessions, tool_name, outcome),
           content |-> ContentSeen(tools_registry, sessions, tool_name, outcome)]
    /\ reregistered' = <<>>
    /\ UNCHANGED <<client_vars, tools_registry, initialized, last_registered, mem_vars, loop_vars, graph_vars, startup_vars>>

\* mcp_manager.execute_tool(tool_name, arguments) as the tool loops call it
\* (run_agent.py:127, app.py:220)
call_execute_tool ==
    /\ ~tool_call.called
    /\ \E tool_name \in RequestedNames :
          \E outcome \in OutcomesOf(tool_name) :
              execute_tool(tool_name, outcome)

\* The caller takes the text execute_tool returned
execute_tool_returns ==
    /\ tool_call.called
    /\ tool_call' = NoToolCall
    /\ reregistered' = <<>>
    /\ UNCHANGED <<client_vars, tools_registry, initialized, last_registered, mem_vars, loop_vars, graph_vars, startup_vars>>

InitTools ==
    /\ sessions = EmptyDict
    /\ client_tools = EmptyDict
    /\ stdio_contexts = EmptyDict
    /\ session_contexts = EmptyDict
    /\ processes = EmptyDict
    /\ next_conn = 0
    /\ tools_registry = <<>>
    /\ initialized = FALSE
    /\ last_registered = EmptyDict
    /\ reregistered = <<>>
    /\ tool_call = NoToolCall

NextTools ==
    \/ initialize
    \/ connect_server_by_name
    \/ \E server_name \in Servers :
          \E prefix \in Prefixes(server_name) :
              register_server_tools(server_name, prefix)
    \/ disconnect_server
    \/ shutdown
    \/ call_execute_tool
    \/ execute_tool_returns

\* The memory manager as constructed with the default settings
InitMemoryDefault ==
    /\ decay_days = DefaultDecayDays
    /\ relevance_threshold = DefaultThreshold
    /\ memory_available = TRUE
    /\ InitMemoryIdle

\* ------------------------------------------------------------------------
\* Agentic tool loop: src/run_agent.py:99-148 and src/app.py:194-242
\* ------------------------------------------------------------------------
\* max_iterations = 5
max_iterations == 5

\* Bound of the model: the tool calls one model response asks for
MaxToolCalls == 2

LoopKinds == {"cli", "web"}

\* A loop that is left after its first pass
LoopContinues_Never(i) == FALSE

\* A loop that makes one pass more
LoopContinues_OneMore(i) == i < max_iterations

\* for iteration in range(max_iterations): another pass follows this one
LoopContinues(i) == i + 1 < max_iterations

\* The text of the n-th model response of a turn
Reply(n) == <<"reply", n>>

\* The names the model asks for in the loop: a filesystem tool under its
\* exposed name and a name no server offers
LoopToolNames == {<<"filesystem">> \o read_file, <<"delete", "file">>}

\* response.tool_calls of the n-th response: names, with the call ids
ToolCallsOf(names, n) == [k \in 1..Len(names) |-> [name |-> names[k], id |-> <<n, k>>]]

ToolCallNames == SeqsUpTo(LoopToolNames, MaxToolCalls)

HumanMessage == [role |-> "human"]

AIMessage(resp) ==
    [role |-> "ai", content |-> resp.content,
     calls |-> [k \in 1..Len(resp.tool_calls) |-> resp.tool_calls[k].id]]

\* A tool message that does not carry its call's id
ToolMessage_NoId(id) == [role |-> "tool", tool_call_id |-> <<0, 0>>]

ToolMessage(id) == [role |-> "tool", tool_call_id |-> id]

\* No turn has been started
InitLoopIdle ==
    /\ turn = "idle"
    /\ phase = "Idle"
    /\ iteration = 0
    /\ model_calls = 0
    /\ messages = <<>>
    /\ response = Absent
    /\ pending = <<>>
    /\ response_text = Absent
    /\ answer = Absent

\* The user enters a query: messages = [HumanMessage(content=user_input)].
\* app.py runs anew for every input, so response_text starts unbound.
start_turn ==
    /\ turn # "running"
    /\ turn' = "running"
    /\ phase' = "AwaitingModel"
    /\ iteration' = 0
    /\ model_calls' = 0
    /\ messages' = <<HumanMessage>>
    /\ response' = Absent
    /\ pending' = <<>>
    /\ response_text' = Absent
    /\ answer' = Absent
    /\ UNCHANGED <<loop_kind, mem_vars, client_vars, manager_vars, graph_vars, startup_vars>>

\* response = llm.invoke(messages); messages.append(response); then the test
\* of response.tool_calls.  Without tool calls run_agent.py prints the content
\* and app.py binds response_text, and the loop is left.
model_responds(names) ==
    /\ turn = "running"
    /\ phase = "AwaitingModel"
    /\ LET n == model_calls + 1
           resp == [content |-> Reply(n), tool_calls |-> ToolCallsOf(names, n)]
       IN  /\ model_calls' = n
           /\ response' = Some(resp)
           /\ messages' = Append(messages, AIMessage(resp))
           /\ IF resp.tool_calls = <<>>
              THEN /\ phase' = "Done"
                   /\ pending' = <<>>
                   /\ answer' = IF loop_kind = "cli" THEN Some(resp.content) ELSE answer
                   /\ response_text' =
                         IF loop_kind = "web" THEN Some(resp.content) ELSE response_text
              ELSE /\ phase' = "ExecutingTools"
                   /\ pending' = resp.tool_calls
                   /\ UNCHANGED <<answer, response_text>>
    /\ UNCHANGED <<loop_kind, turn, iteration, mem_vars, client_vars, manager_vars, graph_vars, startup_vars>>

\* llm.invoke raises: the handler around the turn reports the error
model_fails ==
    /\ turn = "running"
    /\ phase = "AwaitingModel"
    /\ model_calls' = model_calls + 1
    /\ turn' = "error"
    /\ UNCHANGED <<loop_kind, phase, iteration, messages, response, pending,
                   response_text, answer, mem_vars, client_vars, manager_vars, graph_vars, startup_vars>>

\* One pass of for tool_call in response.tool_calls: execute_tool, then a
\* ToolMessage with the call's id, from the try or from the except branch.
\* After the last call the for loop over iterations goes on or is exhausted;
\* run_agent.py's else branch then prints the last response's content.
run_tool_call(outcome, raises) ==
    /\ turn = "running"
    /\ phase = "ExecutingTools"
    /\ pending # <<>>
    /\ LET call == Head(pending)
       IN  /\ messages' = Append(messages, ToolMessage(call.id))
           /\ tool_call' =
                 IF raises THEN NoToolCall
                 ELSE [called |-> TRUE, tool_name |-> call.name, registry |-> tools_registry,
                       text |-> ExecuteTool(tools_registry, DOMAIN sessions, call.name, outcome),
                       calls |-> TransportCalls(tools_registry, sessions, call.name),
                       outcome |-> OutcomeSeen(tools_registry, sessions, call.name, outcome),
                       content |-> ContentSeen(tools_registry, sessions, call.name, outcome)]
    /\ pending' = Tail(pending)
    /\ IF Tail(pending) # <<>>
       THEN UNCHANGED <<phase, iteration, answer>>
       ELSE IF LoopContinues(iteration)
       THEN /\ phase' = "AwaitingModel"
            /\ iteration' = iteration + 1
            /\ UNCHANGED answer
       ELSE /\ phase' = "Done"
            /\ UNCHANGED iteration
            /\ answer' = IF loop_kind = "cli" THEN Some(response[1].content) ELSE answer
    /\ UNCHANGED <<loop_kind, turn, model_calls, response, response_text, mem_vars,
                   client_vars, tools_registry, initialized, last_registered, reregistered,
                   graph_vars, startup_vars>>

execute_tool_calls ==
    /\ turn = "running"
    /\ phase = "ExecutingTools"
    /\ pending # <<>>
    /\ \E outcome \in OutcomesOf(Head(pending).name), raises \in BOOLEAN :
          run_tool_call(outcome, raises)

\* The code after the loop.  run_agent.py stores the interaction, ignoring a
\* failure.  app.py shows response_text: the name is unbound unless a response
\* without tool calls bound it, and reading it then raises NameError, which the
\* handler around the turn reports with st.error.
finish_turn ==
    /\ turn = "running"
    /\ phase = "Done"
    /\ IF loop_kind = "cli"
       THEN /\ turn' = "answered"
            /\ UNCHANGED answer
       ELSE IF response_text = Absent
       THEN /\ turn' = "error"
            /\ UNCHANGED answer
       ELSE /\ turn' = "answered"
            /\ answer' = response_text
    /\ UNCHANGED <<loop_kind, phase, iteration, model_calls, messages, response, pending,
                   response_text, mem_vars, client_vars, manager_vars, graph_vars, startup_vars>>

\* The state after mcp_manager.initialize and a successful
\* connect_server_by_name("filesystem") (run_agent.py:32-35, app.py:86-90)
InitToolsConnected ==
    /\ sessions = Put(EmptyDict, "filesystem", 1)
    /\ client_tools = Put(EmptyDict, "filesystem", <<read_file, write_file>>)
    /\ stdio_contexts = Put(EmptyDict, "filesystem", 1)
    /\ session_contexts = Put(EmptyDict, "filesystem", 1)
    /\ processes = Put(EmptyDict, 1, "filesystem")
    /\ next_conn = 1
    /\ tools_registry =
          <<[server |-> "filesystem",
             tools |-> LangchainTools(client_tools, "filesystem", <<"filesystem">>)]>>
    /\ initialized = TRUE
    /\ last_registered =
          Put(EmptyDict, "filesystem",
              [prefix |-> <<"filesystem">>, tools |-> <<read_file, write_file>>])
    /\ reregistered = <<>>
    /\ tool_call = NoToolCall

\* The manager initialized with no server connected: both connects failed
InitToolsUnconnected ==
    /\ sessions = EmptyDict
    /\ client_tools = EmptyDict
    /\ stdio_contexts = EmptyDict
    /\ session_contexts = EmptyDict
    /\ processes = EmptyDict
    /\ next_conn = 0
    /\ tools_registry = <<>>
    /\ initialized = TRUE
    /\ last_registered = EmptyDict
    /\ reregistered = <<>>
    /\ tool_call = NoToolCall

InitLoop ==
    /\ loop_kind \in LoopKinds
    /\ InitLoopIdle
    /\ InitToolsConnected \/ InitToolsUnconnected
    /\ InitMemoryDefault

NextLoop ==
    \/ start_turn
    \/ \E names \in ToolCallNames : model_responds(names)
    \/ model_fails
    \/ execute_tool_calls
    \/ finish_turn

\* The loop of run_agent.py is not started in the runs of the other components
InitLoopUnused == loop_kind = "cli" /\ InitLoopIdle

\* ------------------------------------------------------------------------
\* Startup: src/src/mcp_integration/config.py, src/src/core/model_manager.py
\* ------------------------------------------------------------------------
\* Bound of the model: the entries of a list in a configuration file
MaxEntries == 2

\* A file is absent, or holds a content: what yaml.safe_load makes of it.
\* parsed is FALSE when safe_load raises; data is then absent.  The data of
\* a parsed file is absent (an empty document, None) or a mapping.
Unparseable == [parsed |-> FALSE, data |-> Absent]

Document(data) == [parsed |-> TRUE, data |-> data]

\* The entries of a "servers" list: MCPServerConfig requires name and command
ServerEntries ==
    {[name |-> Some("filesystem"), command |-> Some("python")],
     [name |-> Some("web-search"), command |-> Some("npx")],
     [name |-> Some("github"), command |-> Absent]}

\* The contents of mcp_servers.yaml: a mapping has the key "servers" or not
ServersContents ==
    {Unparseable, Document(Absent), Document(Some([servers |-> Absent]))}
        \cup {Document(Some([servers |-> Some(list)])) :
                 list \in SeqsUpTo(ServerEntries, MaxEntries)}

ServersFiles == {Absent} \cup {Some(content) : content \in ServersContents}

\* The entries of a provider's list: ModelConfig requires name and
\* display_name (and context_window, which the entries here all have)
ModelEntries ==
    {[name |-> Some("claude-sonnet"), display_name |-> Some("Claude Sonnet")],
     [name |-> Some("llama3"), display_name |-> Absent]}

Providers == {"anthropic", "ollama"}

\* The value of the key "models": provider -> list of entries
ModelsMappings ==
    UNION {[ps -> SeqsUpTo(ModelEntries, MaxEntries)] : ps \in SUBSET Providers}

\* The contents of models.yaml: a mapping has the key "models" or not
ModelsContents ==
    {Unparseable, Document(Absent), Document(Some([models |-> Absent]))}
        \cup {Document(Some([models |-> Some(mapping)])) : mapping \in ModelsMappings}

ModelsFiles == {Absent} \cup {Some(content) : content \in ModelsContents}

\* MCPServerConfig(**server_data): raises when a required field is missing
ServerValid(server_data) == server_data.name # Absent /\ server_data.command # Absent

MCPServerConfig(server_data) ==
    [name |-> server_data.name[1], command |-> server_data.command[1]]

\* MCPConfig(): no servers
EmptyConfig == <<>>

\* The servers of _create_default_config
DefaultConfig ==
    <<[name |-> "filesystem", command |-> "python"],
      [name |-> "web-search", command |-> "npx"],
      [name |-> "github", command |-> "npx"],
      [name |-> "sqlite", command |-> "npx"]>>

\* The try block of _load_config on an existing file: it raises, or it
\* leaves self.config as it was (empty) or sets it from the list
ReadServers(content) ==
    IF ~content.parsed
    THEN [raised |-> TRUE, config |-> EmptyConfig]
    ELSE IF content.data = Absent \/ content.data[1].servers = Absent
    THEN [raised |-> FALSE, config |-> EmptyConfig]
    ELSE LET list == content.data[1].servers[1] IN
         IF \E i \in 1..Len(list) : ~ServerValid(list[i])
         THEN [raised |-> TRUE, config |-> EmptyConfig]
         ELSE [raised |-> FALSE,
               config |-> [i \in 1..Len(list) |-> MCPServerConfig(list[i])]]

\* MCPConfigManager._load_config: no file, or an exception of the try
\* block, ends in _create_default_config; nothing leaves the loader
LoadConfig(file) ==
    IF file = Absent \/ ReadServers(file[1]).raised
    THEN [config |-> DefaultConfig, default |-> TRUE]
    ELSE [config |-> ReadServers(file[1]).config, default |-> FALSE]

\* What _save_config writes for a configuration
Dump(servers) ==
    Document(Some([servers |->
        Some([i \in 1..Len(servers) |->
                 [name |-> Some(servers[i].name),
                  command |-> Some(servers[i].command)]])]))

\* ModelConfig(**m) of m["name"]: raises when a required field is missing
ModelValid(m) == m.name # Absent /\ m.display_name # Absent

\* {m["name"]: ModelConfig(**m) for m in models}
ModelsByName(list) ==
    [name \in {list[i].name[1] : i \in 1..Len(list)} |->
        LET i == CHOOSE j \in 1..Len(list) :
                     /\ list[j].name[1] = name
                     /\ \A k \in (j + 1)..Len(list) : list[k].name[1] # name
        IN [name |-> name, display_name |-> list[i].display_name[1]]]

\* ModelManager._load_configs: open raises without a file, safe_load on a
\* file it cannot parse, config["models"] on None and on a mapping without
\* the key, ModelConfig on an entry without a required field; the except
\* branch logs and raises again
LoadModels(file) ==
    IF file = Absent \/ ~file[1].parsed \/ file[1].data = Absent
    THEN [raised |-> TRUE, models |-> EmptyDict]
    ELSE IF file[1].data[1].models = Absent
    THEN [raised |-> TRUE, models |-> EmptyDict]
    ELSE LET mapping == file[1].data[1].models[1] IN
         IF \E p \in DOMAIN mapping : \E i \in 1..Len(mapping[p]) : ~ModelValid(mapping[p][i])
         THEN [raised |-> TRUE, models |-> EmptyDict]
         ELSE [raised |-> FALSE,
               models |-> [p \in DOMAIN mapping |-> ModelsByName(mapping[p])]]

NoLoad == [loader |-> "none", before |-> Absent, raised |-> FALSE]

\* The process before its first constructor, over the files it may find
InitStartup ==
    /\ servers_file \in ServersFiles
    /\ models_file \in ModelsFiles
    /\ config = Absent
    /\ models = Absent
    /\ startup = "start"
    /\ last_load = NoLoad

\* MCPConfigManager.__init__, called by MCPManager.__init__ under
\* initialize_mcp (run_agent.py:33, main_mcp.py:37).  saved is FALSE when
\* _save_config fails, which it catches.
MCPConfigManager_init(saved) ==
    /\ startup = "start"
    /\ LET load == LoadConfig(servers_file) IN
        /\ last_load' = [loader |-> "MCPConfigManager", before |-> servers_file,
                         raised |-> FALSE]
        /\ startup' = "config_loaded"
        /\ config' = Some(load.config)
        /\ servers_file' = IF load.default /\ saved
                           THEN Some(Dump(load.config))
                           ELSE servers_file
    /\ UNCHANGED <<models_file, models>>
    /\ UNCHANGED <<mem_vars, client_vars, manager_vars, loop_vars, graph_vars>>

\* ModelManager.__init__, after the MCP manager (run_agent.py:47,
\* main_mcp.py:43): an exception of _load_configs ends the startup
ModelManager_init ==
    /\ startup = "config_loaded"
    /\ LET load == LoadModels(models_file) IN
        /\ last_load' = [loader |-> "ModelManager", before |-> models_file,
                         raised |-> load.raised]
        /\ IF load.raised
           THEN /\ startup' = "failed"
                /\ UNCHANGED models
           ELSE /\ startup' = "ready"
                /\ models' = Some(load.models)
    /\ UNCHANGED <<servers_file, models_file, config>>
    /\ UNCHANGED <<mem_vars, client_vars, manager_vars, loop_vars, graph_vars>>

NextStartup ==
    \/ \E saved \in BOOLEAN : MCPConfigManager_init(saved)
    \/ ModelManager_init

\* The startup is not followed in the runs of the other components: the
\* files were loadable and the managers are constructed
InitStartupUnused ==
    /\ servers_file = Some(Dump(DefaultConfig))
    /\ models_file = Some(Document(Some([models |-> Some(EmptyDict)])))
    /\ config = Some(DefaultConfig)
    /\ models = Some(EmptyDict)
    /\ startup = "ready"
    /\ last_load = NoLoad

\* ------------------------------------------------------------------------
\* Routing graph: src/src/core/agent_graph.py, src/src/agents
\* ------------------------------------------------------------------------
\* Bound of the model: the Router steps of one turn
MaxRouterSteps == 2

\* A text read character by character is the sequence of its characters.
UpperLetters ==
    <<"A", "B", "C", "D", "E", "F", "G", "H", "I", "J", "K", "L", "M",
      "N", "O", "P", "Q", "R", "S", "T", "U", "V", "W", "X", "Y", "Z">>

LowerLetters ==
    <<"a", "b", "c", "d", "e", "f", "g", "h", "i", "j", "k", "l", "m",
      "n", "o", "p", "q", "r", "s", "t", "u", "v", "w", "x", "y", "z">>

Whitespace == {" ", "\t", "\n"}

LowerChar(c) ==
    IF \E i \in 1..26 : UpperLetters[i] = c
    THEN LowerLetters[CHOOSE i \in 1..26 : UpperLetters[i] = c]
    ELSE c

UpperChar(c) ==
    IF \E i \in 1..26 : LowerLetters[i] = c
    THEN UpperLetters[CHOOSE i \in 1..26 : LowerLetters[i] = c]
    ELSE c

\* str.lower()
Lower(text) == [i \in 1..Len(text) |-> LowerChar(text[i])]

Upper(text) == [i \in 1..Len(text) |-> UpperChar(text[i])]

Capitalized(text) ==
    [i \in 1..Len(text) |-> IF i = 1 THEN UpperChar(text[i]) ELSE text[i]]

RECURSIVE LStrip(_)
LStrip(text) ==
    IF text # <<>> /\ Head(text) \in Whitespace THEN LStrip(Tail(text)) ELSE text

RECURSIVE RStrip(_)
RStrip(text) ==
    IF text # <<>> /\ text[Len(text)] \in Whitespace
    THEN RStrip(SubSeq(text, 1, Len(text) - 1))
    ELSE text

\* str.strip()
Strip(text) == RStrip(LStrip(text))

email_agent == <<"e", "m", "a", "i", "l", "_", "a", "g", "e", "n", "t">>

calendar_agent == <<"c", "a", "l", "e", "n", "d", "a", "r", "_", "a", "g", "e", "n", "t">>

idea_agent == <<"i", "d", "e", "a", "_", "a", "g", "e", "n", "t">>

end == <<"e", "n", "d">>

\* valid_agents = ["email_agent", "calendar_agent", "idea_agent", "end"]
valid_agents == <<email_agent, calendar_agent, idea_agent, end>>

\* A decision taken from the response as it is, without the test of membership
Decision_Unvalidated(content) == Lower(Strip(content))

\* decision = response.content.strip().lower(), and "end" when it is not one
\* of valid_agents
Decision(content) ==
    LET decision == Lower(Strip(content))
    IN  IF decision \in Range(valid_agents) THEN decision ELSE end

\* Texts outside the vocabulary: empty, a longer word, a word with a blank
\* inside, a sentence around a valid word, the name without its suffix
OtherTexts ==
    {<<>>, <<"e", "n", "d", "s">>, <<"e", "n", " ", "d">>,
     <<"g", "o", " ">> \o email_agent, <<"i", "d", "e", "a">>}

\* The forms a model may give a text: as it is, in upper case, capitalized,
\* and with whitespace before and after
Forms(text) ==
    {text, Upper(text), Capitalized(text), <<" ">> \o text, text \o <<"\n">>,
     <<"\n", " ">> \o Upper(text) \o <<" ", "\t">>}

\* The response texts of the model to the Router's prompt
RouterResponses == UNION {Forms(t) : t \in Range(valid_agents) \cup OtherTexts}

\* The replies of the model to a handler's prompt
HandlerReplies == {<<"reply one">>, <<"reply two">>}

\* What a model invocation does: it returns a response with a content, or raises
ModelOutcomes(contents) ==
    {[kind |-> "text", content |-> c] : c \in contents}
        \cup {[kind |-> "raises", content |-> <<>>]}

\* The records the memory backend may answer a search with: nothing, a fresh
\* record, a record old enough to fall below the threshold
FreshRecord ==
    [memory |-> "m1", type |-> "semantic", ts |-> Some(0), score |-> Frac(1000, 1),
     decay_factor |-> Absent]

OldRecord == [FreshRecord EXCEPT !.ts = Some(100)]

GraphHitLists == {<<>>, <<FreshRecord>>, <<OldRecord>>}

SearchOutcomes == {"ok", "raises"}

Handlers == {"email_agent", "calendar_agent", "idea_agent"}

AllAgents == Handlers \cup {"supervisor"}

\* The characters of a handler's identifier
Spelled(handler) ==
    IF handler = "email_agent" THEN email_agent
    ELSE IF handler = "calendar_agent" THEN calendar_agent
    ELSE idea_agent

\* The conditional edges of the supervisor node: route_to_agent returns
\* state["next_agent"], and the edge map takes "end" to memory_update and a
\* handler's name to its node; the graph raises for a value the map lacks.
route_to_agent(st) ==
    IF st.next_agent = end THEN "memory_update"
    ELSE IF \E h \in Handlers : Spelled(h) = st.next_agent
    THEN CHOOSE h \in Handlers : Spelled(h) = st.next_agent
    ELSE "raised"

\* The state slot every handler would write if all shared one
ResultSlot_Shared(handler) == "email_results"

\* The state slot a handler writes its result to
ResultSlot(handler) ==
    IF handler = "email_agent" THEN "email_results"
    ELSE IF handler = "calendar_agent" THEN "calendar_results"
    ELSE "idea_results"

\* Error strings that all carry the supervisor's tag
ErrorTag_Supervisor(agent) == "Supervisor error: "

\* The tag of a handler's error strings
ErrorTag(agent) ==
    IF agent = "supervisor" THEN "Supervisor error: "
    ELSE IF agent = "email_agent" THEN "Email agent error: "
    ELSE IF agent = "calendar_agent" THEN "Calendar agent error: "
    ELSE "Idea agent error: "

\* memory_type and limit of each agent's search_memories call
SearchArgs(agent) ==
    IF agent = "supervisor" THEN [memory_type |-> None, limit |-> 3]
    ELSE IF agent = "idea_agent" THEN [memory_type |-> "semantic", limit |-> 5]
    ELSE [memory_type |-> "semantic", limit |-> 3]

\* self.memory_manager.search_memories(...) as the agent calls it
AgentSearch(agent, outcome, hits) ==
    SearchMemories(memory_available, outcome, hits, SearchArgs(agent).memory_type,
                   SearchArgs(agent).limit, TRUE, decay_days, relevance_threshold)

AssistantMessage(content) == [role |-> "ai", content |-> content]

UserMessage(content) == [role |-> "human", content |-> content]

\* config = {"configurable": {"thread_id": session_id or "default"}}
ThreadId(session_id) ==
    IF session_id = Absent \/ session_id = Some("") THEN "default" ELSE session_id[1]

\* initial_state of run and arun
InitialState(user_input, session_id) ==
    [messages |-> <<UserMessage(user_input)>>,
     current_task |-> "",
     user_query |-> user_input,
     relevant_memories |-> <<>>,
     episodic_context |-> "",
     semantic_context |-> "",
     next_agent |-> <<>>,
     agent_history |-> <<>>,
     email_results |-> Absent,
     calendar_results |-> Absent,
     idea_results |-> Absent,
     user_id |-> "default_user",
     session_id |-> IF session_id = Absent \/ session_id = Some("") THEN "session_<now>"
                    ELSE session_id[1],
     errors |-> <<>>,
     retry_count |-> 0]

\* SupervisorAgent.process(state): the state it returns
SupervisorProcess(st, search, hits, model) ==
    IF model.kind = "raises"
    THEN [st EXCEPT !.errors = Append(@, <<ErrorTag("supervisor"), "<exception>">>),
                    !.next_agent = end]
    ELSE LET memories == AgentSearch("supervisor", search, hits)
             decision == Decision(model.content)
         IN  [st EXCEPT !.next_agent = decision,
                        !.agent_history = Append(@, "supervisor"),
                        !.relevant_memories = memories,
                        !.messages = Append(@, AssistantMessage(<<"Routing to: ">> \o decision))]

\* A handler that leaves the routing decision as it found it
HandlerProcess_KeepsDecision(handler, st, search, hits, model) ==
    IF model.kind = "raises"
    THEN [st EXCEPT !.errors = Append(@, <<ErrorTag(handler), "<exception>">>)]
    ELSE [st EXCEPT ![ResultSlot(handler)] =
                        Some([status |-> "processed", message |-> model.content]),
                    !.agent_history = Append(@, handler),
                    !.messages = Append(@, AssistantMessage(model.content))]

\* A handler whose except branch records nothing
HandlerProcess_SilentFailure(handler, st, search, hits, model) ==
    IF model.kind = "raises"
    THEN [st EXCEPT !.next_agent = <<>>]
    ELSE [st EXCEPT ![ResultSlot(handler)] =
                        Some([status |-> "processed", message |-> model.content]),
                    !.agent_history = Append(@, handler),
                    !.messages = Append(@, AssistantMessage(model.content)),
                    !.next_agent = <<>>]

\* EmailAgent.process, CalendarAgent.process, IdeaAgent.process: the state
\* the handler returns
HandlerProcess(handler, st, search, hits, model) ==
    IF model.kind = "raises"
    THEN [st EXCEPT !.errors = Append(@, <<ErrorTag(handler), "<exception>">>),
                    !.next_agent = <<>>]
    ELSE [st EXCEPT ![ResultSlot(handler)] =
                        Some([status |-> "processed", message |-> model.content]),
                    !.agent_history = Append(@, handler),
                    !.messages = Append(@, AssistantMessage(model.content)),
                    !.next_agent = <<>>]

\* A prompt that leaves the user's preferences out
BuildContext_NoPreferences(handler, query, memories) ==
    <<"You are AgentAru's specialist.", "Current request: ">> \o query

\* _build_email_context, _build_calendar_context, _build_idea_context: the
\* system prompt of a handler, as the sequence of its pieces.  The memory
\* texts are joined by newlines (the idea handler sets "- " before each), and
\* a fixed sentence stands in their place when there are none.
BuildContext(handler, query, memories) ==
    LET texts == [i \in 1..Len(memories) |-> memories[i].memory]
        lines == IF handler = "idea_agent"
                 THEN Flatten([i \in 1..Len(texts) |->
                                  IF i = 1 THEN <<"- ", texts[i]>>
                                  ELSE <<"\n", "- ", texts[i]>>])
                 ELSE JoinLines(texts)
        shown == IF lines = <<>>
                 THEN IF handler = "idea_agent" THEN <<"No related ideas found.">>
                      ELSE <<"No specific preferences stored yet.">>
                 ELSE lines
    IN  <<"You are AgentAru's specialist.">> \o shown \o <<"Current request: ">> \o query

NoStep ==
    [node |-> "none", before |-> <<>>, ran |-> "none", search |-> "none",
     model |-> [kind |-> "none", content |-> <<>>], memories |-> <<>>, prompt |-> <<>>]

\* The graph as built and compiled, before a turn
InitGraphIdle ==
    /\ state = <<>>
    /\ node = "idle"
    /\ router_steps = 0
    /\ last_step = NoStep
    /\ store_writes = <<>>
    /\ thread_id = Absent

\* AgentAruGraph.run(user_input, session_id) and arun: the initial state, and
\* the graph entered at its entry point
run(user_input, session_id) ==
    /\ node \in {"idle", "END", "raised"}
    /\ state' = InitialState(user_input, session_id)
    /\ node' = "supervisor"
    /\ router_steps' = 0
    /\ last_step' = NoStep
    /\ store_writes' = <<>>
    /\ thread_id' = Some(ThreadId(session_id))
    /\ UNCHANGED <<agents, mem_vars, client_vars, manager_vars, loop_vars, startup_vars>>

\* What the memory search of a step did, as the step's record keeps it
SearchDid(search) == IF ~memory_available THEN "unavailable" ELSE search

\* supervisor_node(state), then the conditional edge
supervisor_node(search, hits, model) ==
    /\ node = "supervisor"
    /\ router_steps < MaxRouterSteps
    /\ router_steps' = router_steps + 1
    /\ IF "supervisor" \in agents
       THEN /\ state' = SupervisorProcess(state, search, hits, model)
            /\ last_step' = [node |-> "supervisor", before |-> state, ran |-> "agent",
                             search |-> SearchDid(search), model |-> model,
                             memories |-> AgentSearch("supervisor", search, hits),
                             prompt |-> <<>>]
       ELSE /\ state' = [state EXCEPT !.next_agent = end]
            /\ last_step' = [NoStep EXCEPT !.node = "supervisor", !.before = state,
                                           !.ran = "placeholder"]
    /\ node' = route_to_agent(state')
    /\ UNCHANGED <<agents, thread_id, store_writes, mem_vars, client_vars, manager_vars, loop_vars, startup_vars>>

router_step ==
    /\ node = "supervisor"
    /\ router_steps < MaxRouterSteps
    /\ \E search \in SearchOutcomes, hits \in GraphHitLists,
          model \in ModelOutcomes(RouterResponses) :
            supervisor_node(search, hits, model)

\* IdeaAgent.process: "capture" in user_query.lower() or "save" in
\* user_query.lower().  A query is the sequence of its pieces.
PieceLower(piece) ==
    IF piece = "Save" THEN "save" ELSE IF piece = "CAPTURE" THEN "capture" ELSE piece

MentionsCapture(user_query) ==
    \E i \in 1..Len(user_query) : PieceLower(user_query[i]) \in {"capture", "save"}

\* The handler step calls add_fact: the idea agent, after its model answered,
\* for a query that mentions capture or save
CallsAddFact(handler, st, model) ==
    /\ handler = "idea_agent"
    /\ handler \in agents
    /\ model.kind # "raises"
    /\ MentionsCapture(st.user_query)

\* What self.memory.add may do in add_fact and add_interaction: it stores, or
\* it raises, and it raises when there is no backend (self.memory is None)
AddOutcomes == IF memory_available THEN {"stored", "add_raises"} ELSE {"add_raises"}

InteractionWrite(st) ==
    [kind |-> "interaction", at |-> "memory_update", messages |-> st.messages]

FactWrite(st) ==
    [kind |-> "fact", at |-> "idea_agent", messages |-> <<st.user_query>>]

\* email_node, calendar_node, idea_node, then the edge back to the supervisor.
\* add names what memory.add does if the handler calls add_fact, whose
\* except swallows a failure.
handler_node(handler, search, hits, model, add) ==
    /\ node = handler
    /\ IF handler \in agents
       THEN /\ state' = HandlerProcess(handler, state, search, hits, model)
            /\ last_step' = [node |-> handler, before |-> state, ran |-> "agent",
                             search |-> SearchDid(search), model |-> model,
                             memories |-> AgentSearch(handler, search, hits),
                             prompt |-> BuildContext(handler, state.user_query,
                                                     AgentSearch(handler, search, hits))]
       ELSE /\ state' = [state EXCEPT !.next_agent = <<>>]
            /\ last_step' = [NoStep EXCEPT !.node = handler, !.before = state,
                                           !.ran = "placeholder"]
    /\ store_writes' =
          IF CallsAddFact(handler, state, model) /\ add = "stored"
          THEN Append(store_writes, FactWrite(state))
          ELSE store_writes
    /\ node' = "supervisor"
    /\ UNCHANGED <<agents, thread_id, router_steps, mem_vars, client_vars, manager_vars, loop_vars, startup_vars>>

handler_step ==
    /\ node \in Handlers
    /\ \E search \in SearchOutcomes, hits \in GraphHitLists,
          model \in ModelOutcomes(HandlerReplies) :
            \E add \in (IF CallsAddFact(node, state, model) THEN AddOutcomes ELSE {"add_raises"}) :
                handler_node(node, search, hits, model, add)

\* What memory_update_node's call of add_interaction may do: without a
\* backend it returns at once; with one, memory.add stores, or raises inside
\* add_interaction's own try, or an exception leaves add_interaction
MemoryUpdateOutcomes ==
    IF memory_available THEN {"stored", "add_raises", "raises"} ELSE {"skipped"}

\* memory_update_node(state), then the edge to END
memory_update_node(outcome) ==
    /\ node = "memory_update"
    /\ state' =
          IF outcome = "raises"
          THEN [state EXCEPT !.errors = Append(@, <<"Memory update failed: ", "<exception>">>)]
          ELSE state
    /\ store_writes' =
          IF outcome = "stored" THEN Append(store_writes, InteractionWrite(state))
          ELSE store_writes
    /\ last_step' = [NoStep EXCEPT !.node = "memory_update", !.before = state,
                                   !.ran = IF outcome = "stored" THEN "agent" ELSE outcome]
    /\ node' = "END"
    /\ UNCHANGED <<agents, thread_id, router_steps, mem_vars, client_vars, manager_vars, loop_vars, startup_vars>>

memory_update_step ==
    /\ node = "memory_update"
    /\ \E outcome \in MemoryUpdateOutcomes : memory_update_node(outcome)

\* The compiled graph stops a turn that has not reached END within its limit
\* of steps (counted here in router steps): app.invoke raises, and run logs
\* the exception and raises it again to its caller.
recursion_limit_raises ==
    /\ node = "supervisor"
    /\ router_steps = MaxRouterSteps
    /\ node' = "raised"
    /\ last_step' = [NoStep EXCEPT !.node = "raised", !.before = state, !.ran = "raised"]
    /\ UNCHANGED <<agents, thread_id, state, router_steps, store_writes, mem_vars, client_vars,
                   manager_vars, loop_vars, startup_vars>>

\* The agents main.py sets, or none, or the supervisor alone
AgentSettings == {AllAgents, {"supervisor"}, {}}

UserInputs == {<<"What can you do?">>, <<"Save", " this idea: a herb garden">>}

SessionIds == {Absent, Some("s1")}

InitGraph ==
    /\ agents \in AgentSettings
    /\ InitGraphIdle
    /\ decay_days = DefaultDecayDays
    /\ relevance_threshold = DefaultThreshold
    /\ memory_available \in BOOLEAN
    /\ InitMemoryIdle
    /\ InitTools
    /\ InitLoopUnused
    /\ InitStartupUnused

NextGraph ==
    \/ \E user_input \in UserInputs, session_id \in SessionIds : run(user_input, session_id)
    \/ router_step
    \/ handler_step
    \/ memory_update_step
    \/ recursion_limit_raises

\* The graph is not run in the runs of the other components
InitGraphUnused == agents = AllAgents /\ InitGraphIdle


\* The MCP manager at work, beside a memory manager left idle
InitSpecTools ==
    InitTools /\ InitMemoryDefault /\ InitLoopUnused /\ InitGraphUnused /\ InitStartupUnused

SpecTools == InitSpecTools /\ [][NextTools]_vars

\* The memory manager at work, beside an MCP manager left as constructed
InitSpecMemory ==
    InitMemory /\ InitTools /\ InitLoopUnused /\ InitGraphUnused /\ InitStartupUnused

SpecMemory == InitSpecMemory /\ [][NextMemory]_vars

\* The routing graph, turn after turn
SpecGraph == InitGraph /\ [][NextGraph]_vars

\* The graph with the agents main.py sets and a memory backend.  Its code runs
\* on, and the user goes on asking: a step that can be taken is taken.
InitGraphFair == InitGraph /\ agents = AllAgents /\ memory_available

SpecGraphFair == InitGraphFair /\ [][NextGraph]_vars /\ WF_vars(NextGraph)

\* The startup of run_agent.py and main_mcp.py, beside components not yet used
InitSpecStartup ==
    InitStartup /\ InitTools /\ InitMemoryDefault /\ InitLoopUnused /\ InitGraphUnused

SpecStartup == InitSpecStartup /\ [][NextStartup]_vars

\* The tool loop, turn after turn
InitSpecLoop == InitLoop /\ InitGraphUnused /\ InitStartupUnused

SpecLoop == InitSpecLoop /\ [][NextLoop]_vars

\* The loop's code runs on: a step that can be taken is taken
SpecLoopFair == SpecLoop /\ WF_vars(NextLoop)

\* ------------------------------------------------------------------------
\* Properties of the memory adapter (checked under SpecMemory)
\* ------------------------------------------------------------------------
\* A search with decay has just returned.
DecaySearchReturned ==
    /\ mem_pc = "returned"
    /\ last_search.apply_decay
    /\ last_search.outcome = "ok"

\* The records _apply_decay was given, as the backend scored them:
\* BaseOf(i) is decayed[i] before the call.
BaseOf(i) == FilterByType(backend_hits, last_search.memory_type)[i]

Timestamped(i) == decayed[i].ts # Absent

AgeOf(i) == decayed[i].ts[1]

Tenth == Frac(1, 10)

\* decayed[i] is monotone in age against decayed[j] and floored at a tenth
\* of its base score.
MonotoneAndFloored(i, j) ==
    /\ (FracEq(BaseOf(i).score, BaseOf(j).score) /\ AgeOf(i) >= AgeOf(j))
          => FracGeq(decayed[j].score, decayed[i].score)
    /\ FracGeq(decayed[i].score, FracMul(Tenth, BaseOf(i).score))
    /\ decayed[i].decay_factor = Some(DecayFactor(AgeOf(i), decay_days))
    /\ FracGeq(decayed[i].decay_factor[1], Tenth)

\* C6 as stated: for ANY two timestamped records with the same base score
\* and decay window, the older one's decayed score is <= the younger one's,
\* and every decayed score is >= 0.1 x the base score.
C6_DecayMonotoneFloored_AnyScore ==
    DecaySearchReturned =>
        \A i, j \in 1..Len(decayed) :
            (Timestamped(i) /\ Timestamped(j)) => MonotoneAndFloored(i, j)

\* C6 amended: the same for records whose base score is not negative.
C6_DecayMonotoneFloored ==
    DecaySearchReturned =>
        \A i, j \in 1..Len(decayed) :
            (/\ Timestamped(i) /\ Timestamped(j)
             /\ BaseOf(i).score.n >= 0 /\ BaseOf(j).score.n >= 0)
                => MonotoneAndFloored(i, j)

\* Two records of base score 1.0 went through the decay, one fresh and one
\* older than the window.
C6_Witness ==
    /\ DecaySearchReturned
    /\ \E i, j \in 1..Len(decayed) :
          /\ Timestamped(i) /\ Timestamped(j)
          /\ BaseOf(i).score = Frac(1000, 1) /\ BaseOf(j).score = Frac(1000, 1)
          /\ AgeOf(i) > decay_days /\ AgeOf(j) = 0
          /\ ~FracGeq(decayed[i].score, decayed[j].score)

VeryOld(i) ==
    /\ Timestamped(i)
    /\ AgeOf(i) > decay_days
    /\ BaseOf(i).score.n > 0
    /\ BaseOf(i).score.n <= 1000 * BaseOf(i).score.d

DefaultSettings ==
    decay_days = DefaultDecayDays /\ relevance_threshold = DefaultThreshold

\* C8 as stated: under the default settings a very old record of high
\* original relevance is still returned by a search with decay.
C8_VeryOldStillReturned ==
    (DecaySearchReturned /\ DefaultSettings /\ Len(decayed) <= last_search.limit)
        => \A i \in 1..Len(decayed) :
              VeryOld(i) => decayed[i] \in Range(results)

\* C8 amended: a very old record keeps exactly a tenth of its base score,
\* it is returned only if that tenth reaches the threshold, and under the
\* default settings it never is.
C8_VeryOldKeepsTenthButDropped ==
    DecaySearchReturned =>
        \A i \in 1..Len(decayed) :
            VeryOld(i) =>
                /\ FracEq(decayed[i].score, FracMul(Tenth, BaseOf(i).score))
                /\ decayed[i].score.n > 0
                /\ decayed[i] \in Range(results)
                      => FracGeq(FracMul(Tenth, BaseOf(i).score),
                                 Frac(relevance_threshold, 1))
                /\ DefaultSettings => decayed[i] \notin Range(results)

\* Under the default settings a very old record of base score 1.0 is left
\* out of a result that had room for it; under the lower threshold it is in.
C8_Witness ==
    /\ DecaySearchReturned
    /\ Len(decayed) <= last_search.limit
    /\ \E i \in 1..Len(decayed) :
          /\ VeryOld(i)
          /\ BaseOf(i).score = Frac(1000, 1)
          /\ DefaultSettings
          /\ decayed[i] \notin Range(results)


\* ------------------------------------------------------------------------
\* Properties of the tool registry and the tool-invocation bridge
\* ------------------------------------------------------------------------
\* The name asked for is the exposed name of no tool of the registry
Unregistered == tool_call.tool_name \notin ExposedNames(tool_call.registry)

\* C3: for every tool name that is not the exposed name of a registered tool,
\* whatever the registry holds (nothing included), execute_tool returns a
\* text that carries the error marker, and no call goes to a server's session.
C3_UnknownToolIsErrorText ==
    (tool_call.called /\ Unregistered) =>
        /\ HasErrorMarker(tool_call.text)
        /\ tool_call.calls = <<>>

\* An unknown name was asked for while a connected server's tools were registered
C3_Witness ==
    /\ tool_call.called
    /\ Unregistered
    /\ tool_call.tool_name = <<"delete", "file">>
    /\ \E s \in DOMAIN sessions : get_tools_of(tool_call.registry, s) # <<>>
    /\ HasErrorMarker(tool_call.text)

\* The tools one registration of server_name gives, by the record of its last
\* registration
RegisteredOnce(server_name) ==
    LET reg == last_registered[server_name]
    IN  [i \in 1..Len(reg.tools) |-> MCPToolWrapper(reg.prefix, server_name, reg.tools[i])]

NoDuplicateNames(tools) ==
    \A i, j \in 1..Len(tools) : tools[i].name = tools[j].name => i = j

\* C9: registering a server's tools again with the same prefix, the
\* server's tool list unchanged in between, leaves the registry with what one
\* registration gives: the same exposed names, each once for that server.
C9_RegistrationIdempotent ==
    \A s \in Range(reregistered) :
        /\ get_tools_of(tools_registry, s) = RegisteredOnce(s)
        /\ NoDuplicateNames(get_tools_of(tools_registry, s))
        /\ {t.name : t \in Range(get_tools_of(tools_registry, s))} =
              {ExposedName(last_registered[s].prefix, n) : n \in Range(last_registered[s].tools)}

\* A connected server with tools has just been registered a second time
C9_Witness ==
    \E s \in Range(reregistered) :
        /\ s \in DOMAIN sessions
        /\ last_registered[s].tools # <<>>
        /\ last_registered[s].prefix = <<s>>


\* ------------------------------------------------------------------------
\* Properties of the agentic tool loop
\* ------------------------------------------------------------------------
\* The loop was left because the last of max_iterations responses asked for
\* tools, as every response before it did
CapReached ==
    /\ phase = "Done"
    /\ model_calls = max_iterations
    /\ response # Absent
    /\ response[1].tool_calls # <<>>

\* C4: whatever the model answers, tool requests in every response included,
\* the model is invoked at most max_iterations times in a turn, never a 6th
\* time, and a turn that awaits the model reaches Done (or ends with the
\* error of a failed invocation).
C4_LoopReachesDoneWithinCap ==
    /\ [](model_calls <= max_iterations)
    /\ (turn = "running" /\ phase = "AwaitingModel") ~> (phase = "Done" \/ turn = "error")

\* The loop is left at the cap, every response having asked for tools
C4_Witness == CapReached /\ Len(messages) >= 1 + 2 * max_iterations

\* C5: when the cap is reached because every response asked for tools, the
\* turn ends answered, with the text of the last model response as its
\* answer, in the loop of run_agent.py and in the loop of app.py.
C5_CapAnswerIsLastResponse ==
    (CapReached /\ turn # "running") =>
        /\ turn = "answered"
        /\ answer = Some(Reply(max_iterations))


\* ------------------------------------------------------------------------
\* Properties of the routing graph
\* ------------------------------------------------------------------------
\* The last step was a Router step run by the supervisor agent
RouterStepDone == last_step.node = "supervisor" /\ last_step.ran = "agent"

\* The model answered the Router's prompt with a text
RouterAnswered == RouterStepDone /\ last_step.model.kind = "text"

\* The text of the answer, trimmed and in lower case
Normalized == Lower(Strip(last_step.model.content))

\* C1: after a Router step the decision in the state is one of email_agent,
\* calendar_agent, idea_agent and end, whatever text the model answered; a
\* text that is none of them after trimming and lower-casing is stored as end.
C1_DecisionInVocabulary ==
    /\ RouterStepDone => state.next_agent \in Range(valid_agents)
    /\ (RouterAnswered /\ Normalized \notin Range(valid_agents)) => state.next_agent = end

\* The model answered with a text outside the vocabulary, in upper case and
\* with whitespace around it, and the decision is end
C1_Witness ==
    /\ RouterAnswered
    /\ Normalized \notin Range(valid_agents)
    /\ Normalized # last_step.model.content
    /\ Normalized # <<>>
    /\ state.next_agent = end

\* The memory search or the model invocation of the last Router step failed
RouterCallFailed ==
    /\ RouterStepDone
    /\ \/ last_step.search \in {"raises", "unavailable"}
       \/ last_step.model.kind = "raises"

\* C2: when the memory search or the model invocation fails in a Router
\* step, the step returns with the decision end and with one error string
\* tagged for the supervisor appended to the error list.
C2_RouterFailureEndsTurn ==
    RouterCallFailed =>
        /\ state.next_agent = end
        /\ state.errors = Append(last_step.before.errors, <<ErrorTag("supervisor"), "<exception>">>)

\* The last step was a handler step in which the model answered
HandlerSucceeded ==
    /\ last_step.node \in Handlers
    /\ last_step.ran = "agent"
    /\ last_step.model.kind = "text"

OtherFields ==
    {"current_task", "user_query", "relevant_memories", "episodic_context",
     "semantic_context", "user_id", "session_id", "errors", "retry_count"}

\* C10: a handler step that succeeds writes status processed and the model's
\* text into its own result slot, appends one assistant message with the
\* model's reply, appends its identifier to the handler history and clears the
\* routing decision; the other handlers' slots, the error list, the user query
\* and the session and user identifiers stay as they were.
C10_HandlerSuccessFrame ==
    HandlerSucceeded =>
        LET before == last_step.before
            handler == last_step.node
            reply == last_step.model.content
        IN  /\ state[ResultSlot(handler)] = Some([status |-> "processed", message |-> reply])
            /\ \A h \in Handlers \ {handler} : state[ResultSlot(h)] = before[ResultSlot(h)]
            /\ state.messages = Append(before.messages, AssistantMessage(reply))
            /\ state.agent_history = Append(before.agent_history, handler)
            /\ state.next_agent = <<>>
            /\ \A f \in OtherFields : state[f] = before[f]

\* The calendar handler succeeded after an earlier step left an error in the
\* state
C10_Witness ==
    /\ HandlerSucceeded
    /\ last_step.node = "calendar_agent"
    /\ last_step.before.errors # <<>>
    /\ state.calendar_results # Absent
    /\ last_step.before.next_agent = calendar_agent


\* The last step was a handler step run by the handler's agent
HandlerStepDone == last_step.node \in Handlers /\ last_step.ran = "agent"

\* The state fields, and the domain each handler names in its error strings
StateFields == DOMAIN InitialState(<<>>, Absent)

DomainName(handler) ==
    IF handler = "email_agent" THEN "Email"
    ELSE IF handler = "calendar_agent" THEN "Calendar"
    ELSE "Idea"

DomainError(handler) == <<DomainName(handler) \o " agent error: ", "<exception>">>

\* C11: when the model invocation of a handler step fails, the handler
\* returns with one error string tagged with its domain appended to the error
\* list and with the routing decision cleared; no message is appended, the
\* handler history is not extended, no result slot is written, and every other
\* field stays as it was.
C11_HandlerModelFailureFrame ==
    (HandlerStepDone /\ last_step.model.kind = "raises") =>
        /\ state.errors = Append(last_step.before.errors, DomainError(last_step.node))
        /\ state.next_agent = <<>>
        /\ \A f \in StateFields \ {"errors", "next_agent"} : state[f] = last_step.before[f]

\* The model failed in the idea handler after another handler had succeeded
C11_Witness ==
    /\ HandlerStepDone
    /\ last_step.model.kind = "raises"
    /\ last_step.node = "idea_agent"
    /\ last_step.before.next_agent = idea_agent
    /\ \E h \in Handlers : last_step.before[ResultSlot(h)] # Absent
    /\ Len(state.errors) = 1

\* C12: when the memory lookup of a handler step fails, because the
\* backend's search raises or because the backend is unavailable, the handler
\* appends an error string tagged with its domain to the error list and writes
\* no result record.
C12_HandlerMemoryFailureIsError ==
    (HandlerStepDone /\ last_step.search \in {"raises", "unavailable"}) =>
        /\ state.errors = Append(last_step.before.errors, DomainError(last_step.node))
        /\ state[ResultSlot(last_step.node)] = last_step.before[ResultSlot(last_step.node)]

\* C13: whenever a Router step starts after a handler step, whether the
\* handler succeeded, failed or was a placeholder, the routing decision in the
\* state is empty.
C13_DecisionClearedBeforeRouter ==
    (node = "supervisor" /\ last_step.node \in Handlers) => state.next_agent = <<>>

\* The Router is about to run after a placeholder handler took the decision
C13_Witness ==
    /\ node = "supervisor"
    /\ last_step.node \in Handlers
    /\ last_step.ran = "placeholder"
    /\ last_step.before.next_agent = Spelled(last_step.node)


\* ------------------------------------------------------------------------
\* Properties of the connections and of the tools' lifetime
\* ------------------------------------------------------------------------
\* The server processes that run for a server name
LiveProcesses(server_name) == {c \in DOMAIN processes : processes[c] = server_name}

\* C14: after any sequence of connects and disconnects, a connect of a name
\* that is already connected included, at most one live connection exists for
\* a server name: no earlier process of that name is left running.
C14_OneLiveConnectionPerServer ==
    \A server_name \in Servers : Cardinality(LiveProcesses(server_name)) <= 1

\* The wrapper that execute_tool found for the name it was asked for
FoundTool == get_tool_by_name(tool_call.registry, tool_call.tool_name)

\* C15: a call of execute_tool for a registered tool whose server is not a key
\* of the client's sessions reaches no session and returns the error-tagged
\* text that names the not-connected condition and the server.
C15_NotConnectedIsErrorText ==
    (tool_call.called /\ FoundTool # <<>> /\ FoundTool[1].server_name \notin DOMAIN sessions) =>
        /\ tool_call.calls = <<>>
        /\ tool_call.text = <<ErrorMarker, "Not connected to server: ", FoundTool[1].server_name>>

\* A tool registered while its server was connected is called after the
\* server was disconnected
C15_Witness ==
    /\ tool_call.called
    /\ tool_call.tool_name = <<"filesystem">> \o read_file
    /\ FoundTool # <<>>
    /\ "filesystem" \notin DOMAIN sessions
    /\ tool_call.calls = <<>>
    /\ HasErrorMarker(tool_call.text)

\* C17: when the call of a registered tool reaches its session and the
\* transport raises, which call_tool turns into success = False, execute_tool
\* returns the error-tagged text that holds the failure message.
C17_ExecutorFailureIsErrorText ==
    (tool_call.called /\ tool_call.outcome = "raises") =>
        /\ HasErrorMarker(tool_call.text)
        /\ \E i \in 1..Len(tool_call.text) : tool_call.text[i] = "<transport failure>"

C17_Witness ==
    /\ tool_call.called
    /\ tool_call.outcome = "raises"
    /\ tool_call.calls # <<>>
    /\ FoundTool # <<>>
    /\ tool_call.text = <<ErrorMarker, "<transport failure>">>

\* C16: once disconnect_server(name) has removed the server's session, no
\* tool of that server is listed by the client's list_tools, and none is
\* offered by the manager's get_tools and get_tool_by_name.  (A server leaves
\* the sessions only by a disconnect_server that completed.)
C16_DisconnectedServerOffersNoTools ==
    \A server_name \in Servers \ DOMAIN sessions :
        /\ ListTools(client_tools, server_name) = <<>>
        /\ get_tools_of(tools_registry, server_name) = <<>>
        /\ \A t \in Range(get_tools(tools_registry)) : t.server_name # server_name
        /\ \A tool_name \in RequestedNames :
              LET tool == get_tool_by_name(tools_registry, tool_name)
              IN  tool # <<>> => tool[1].server_name # server_name

\* ------------------------------------------------------------------------
\* Properties of a whole turn of the routing graph
\* ------------------------------------------------------------------------
\* C18: a turn always terminates gracefully: whatever the router answers and
\* whichever handler fails, a turn that was started reaches the memory
\* update and the graph's end, and no exception reaches the caller of run().
C18_TurnReachesEnd == (node = "supervisor") ~> (node = "END")

\* The turn is completed: the graph reached its end
TurnCompleted == node = "END"

\* The last of the turn's error strings reports a failed memory update
MemoryUpdateErrorAppended ==
    /\ state.errors # <<>>
    /\ state.errors[Len(state.errors)][1] = "Memory update failed: "

\* C19: in every completed turn the memory store is updated exactly once,
\* with the turn's full message history, and only after the Router decided
\* "end" (no update of the store is made at a handler step); a memory update
\* that fails stores nothing and appends an error string to the turn's
\* errors, and the turn still completes.  (Stated for a memory manager that
\* has a backend.)
C19_MemoryUpdatedOnceAfterEnd ==
    (TurnCompleted /\ memory_available) =>
        /\ state.next_agent = end
        /\ last_step.node = "memory_update"
        /\ \A i \in 1..Len(store_writes) : store_writes[i].at = "memory_update"
        /\ \/ store_writes = <<InteractionWrite(state)>>
           \/ store_writes = <<>> /\ MemoryUpdateErrorAppended

\* The Router ran once in the completed turn, answered, and its answer meant
\* "end"; the memory search gave it no records.
FirstDecisionWasEnd ==
    /\ TurnCompleted
    /\ "supervisor" \in agents
    /\ router_steps = 1
    /\ \A i \in 1..Len(state.errors) : state.errors[i][1] # "Supervisor error: "
    /\ state.relevant_memories = <<>>

\* C20: when the Router's first decision of a turn is "end" and there are no
\* memory records, the finished turn's handler history is exactly
\* <<"supervisor">>, no handler result slot is written, and the final message
\* of the returned state is an assistant message that carries a reply of the
\* model.
C20_DirectReplyOnFirstEnd ==
    FirstDecisionWasEnd =>
        /\ state.agent_history = <<"supervisor">>
        /\ \A h \in Handlers : state[ResultSlot(h)] = Absent
        /\ state.messages[Len(state.messages)] \in
              {AssistantMessage(content) : content \in RouterResponses}

\* ------------------------------------------------------------------------
\* Properties of the Router's and the handlers' steps
\* ------------------------------------------------------------------------
\* The last step was the calendar handler's, taken on the Router's decision
CalendarStepDone ==
    /\ HandlerStepDone
    /\ last_step.node = "calendar_agent"
    /\ last_step.before.next_agent = calendar_agent

\* C21: when the Router decided calendar_agent, the prompt the calendar
\* handler renders holds the text of every memory record its search returned,
\* as it is, and after a step in which the model answered the state's
\* calendar_results has the status processed.
C21_CalendarPromptHoldsPreferences ==
    CalendarStepDone =>
        /\ \A i \in 1..Len(last_step.memories) :
              last_step.memories[i].memory \in Range(last_step.prompt)
        /\ last_step.model.kind = "text" =>
              /\ state.calendar_results # Absent
              /\ state.calendar_results[1].status = "processed"

\* The calendar handler's search returned a preference record, whose text is
\* in the prompt, and the model answered
C21_Witness ==
    /\ CalendarStepDone
    /\ last_step.memories # <<>>
    /\ last_step.memories[1].memory = FreshRecord.memory
    /\ FreshRecord.memory \in Range(last_step.prompt)
    /\ last_step.model.kind = "text"
    /\ state.calendar_results = Some([status |-> "processed", message |-> last_step.model.content])

\* C24: every Router step, whatever decision it ends with, the decision end
\* reached after a failure included, appends exactly one assistant message
\* "Routing to: <decision>" to the message history, appends "supervisor" to
\* the handler history and stores the memory records it retrieved in the
\* state.
C24_RouterStepSideEffects ==
    RouterStepDone =>
        LET before == last_step.before
        IN  /\ state.messages =
                  Append(before.messages,
                         AssistantMessage(<<"Routing to: ">> \o state.next_agent))
            /\ state.agent_history = Append(before.agent_history, "supervisor")
            /\ state.relevant_memories = last_step.memories

\* log grew by one entry from what it was
GrewByOne(log, was) == Len(log) = Len(was) + 1 /\ SubSeq(log, 1, Len(was)) = was

\* was is a prefix of log
Extends(log, was) == Len(log) >= Len(was) /\ SubSeq(log, 1, Len(was)) = was

\* The last step was a Router step or a handler step, run by its agent
AgentStepDone == RouterStepDone \/ HandlerStepDone

\* C30: with all agents set, every Router step and every handler step appends
\* exactly one entry to exactly one of the two logs: its own identifier to
\* the handler history when it succeeded, or one error string to the error
\* list when it failed, never both and never neither; and no step of the
\* turn takes an entry out of either log.
C30_OneLogEntryPerStep ==
    /\ (agents = AllAgents /\ AgentStepDone) =>
          LET before == last_step.before
              succeeded == last_step.model.kind = "text"
          IN  \/ /\ succeeded
                 /\ state.agent_history = Append(before.agent_history, last_step.node)
                 /\ state.errors = before.errors
              \/ /\ ~succeeded
                 /\ GrewByOne(state.errors, before.errors)
                 /\ state.agent_history = before.agent_history
    /\ (agents = AllAgents /\ last_step.node # "none") =>
          /\ Extends(state.errors, last_step.before.errors)
          /\ Extends(state.agent_history, last_step.before.agent_history)

\* A handler failed after the Router had succeeded: the history holds the
\* Router's entry and the error list the handler's
C30_Witness ==
    /\ agents = AllAgents
    /\ HandlerStepDone
    /\ last_step.model.kind = "raises"
    /\ state.agent_history = <<"supervisor">>
    /\ Len(state.errors) = 1
    /\ last_step.before.errors = <<>>

\* C28: checkpoints are keyed by session id: in every turn started by run or
\* arun the checkpoint key (thread id) equals the session identifier stored
\* in the turn's state, a turn started without an explicit session id
\* included.
C28_ThreadIdIsSessionId ==
    node # "idle" => thread_id = Some(state.session_id)

\* ------------------------------------------------------------------------
\* Properties of the tool loop's message history
\* ------------------------------------------------------------------------
\* The places of the model's responses in the history, and for a response
\* the place of the next one (or the place after the history's end)
ResponsePlaces == {i \in 1..Len(messages) : messages[i].role = "ai"}

NextResponse(i) ==
    IF \E j \in ResponsePlaces : j > i
    THEN CHOOSE j \in ResponsePlaces : j > i /\ \A k \in ResponsePlaces : k > i => j <= k
    ELSE Len(messages) + 1

\* The messages between the response at place i and the next response
ResultsOf(i) == SubSeq(messages, i + 1, NextResponse(i) - 1)

\* C25: for every tool-call request of a model response exactly one
\* tool-result message with the request's call id is appended to the history,
\* after that response and before the next model invocation, in the order of
\* the requests, whether the tool succeeded, was not found or failed: the
\* messages after a response are the results of its requests, one for one,
\* complete when the model is invoked again and short only of the requests
\* still pending.
C25_OneResultPerRequest ==
    \A i \in ResponsePlaces :
        LET calls == messages[i].calls
            res == ResultsOf(i)
        IN  /\ Len(res) <= Len(calls)
            /\ \A j \in 1..Len(res) : res[j] = [role |-> "tool", tool_call_id |-> calls[j]]
            /\ Len(res) =
                  IF NextResponse(i) > Len(messages) /\ phase = "ExecutingTools"
                  THEN Len(calls) - Len(pending)
                  ELSE Len(calls)

\* The model was invoked again after a response with two requests, one for a
\* tool that is not registered, and both results are in the history
C25_Witness ==
    /\ Len(messages) >= 5
    /\ messages[2].role = "ai" /\ Len(messages[2].calls) = 2
    /\ messages[3] = [role |-> "tool", tool_call_id |-> messages[2].calls[1]]
    /\ messages[4] = [role |-> "tool", tool_call_id |-> messages[2].calls[2]]
    /\ messages[5].role = "ai"
    /\ "filesystem" \notin DOMAIN sessions

\* The last message of the history is a tool result
EndsWithToolResult == messages # <<>> /\ messages[Len(messages)].role = "tool"

\* C26 as stated: every ExecutingTools phase is followed by an AwaitingModel
\* phase, so the turn never reaches Done with tool results the model was not
\* invoked on.
C26_ToolResultsAlwaysSeen == phase = "Done" => ~EndsWithToolResult

\* C26 amended: the tools of a response once executed, the loop goes back to
\* AwaitingModel, except after the max_iterations-th response: then the loop
\* is left for Done, and the results of that response's tools are in the
\* history without the model being invoked on them.
C26_ToolsThenModelUnlessCap ==
    /\ phase = "ExecutingTools" => pending # <<>>
    /\ (phase = "Done" /\ EndsWithToolResult) => CapReached
    /\ (EndsWithToolResult /\ pending = <<>> /\ model_calls < max_iterations)
          => phase = "AwaitingModel"

\* The loop went back to the model after the tools of its first response
C26_Witness ==
    /\ turn = "running"
    /\ phase = "AwaitingModel"
    /\ EndsWithToolResult
    /\ iteration = 1
    /\ model_calls = 1

\* ------------------------------------------------------------------------
\* Records without a timestamp (checked under SpecMemory)
\* ------------------------------------------------------------------------
\* The record's score as the backend gave it is below the threshold
BelowThreshold(i) == ~FracGeq(BaseOf(i).score, Frac(relevance_threshold, 1))

get_connected_servers(client_sessions) == DOMAIN client_sessions

\* C29: after shutdown() has returned, whichever servers were connected and
\* whatever the disconnects did, a context exit that raises included, the
\* manager is not initialized and get_connected_servers() is empty.
C29_ShutdownLeavesNothingConnected ==
    [][shutdown => (~initialized' /\ get_connected_servers(sessions') = {})]_vars

\* ------------------------------------------------------------------------
\* The filesystem servers' answers through the bridge (checked under SpecTools)
\* ------------------------------------------------------------------------
\* The call in progress is a call of the filesystem tool read_file that a
\* filesystem server answered for a path that does not exist
ReadOfMissingFile ==
    /\ tool_call.called
    /\ FoundTool # <<>>
    /\ FoundTool[1].server_name = "filesystem"
    /\ FoundTool[1].tool_name = read_file
    /\ \E server \in FilesystemServers :
          tool_call.content = ReadFileMissing(server, MissingPath)

\* C22: a call of the filesystem tool read_file with a relative path that
\* does not exist yields, through the bridge, a text that begins with the
\* error marker, whichever of the repository's filesystem servers answers.
C22_MissingFileIsErrorText == ReadOfMissingFile => HasErrorMarker(tool_call.text)


\* ------------------------------------------------------------------------
\* Properties of the startup (checked under SpecStartup)
\* ------------------------------------------------------------------------
\* The file a loader reads
FileOf(loader) == IF loader = "MCPConfigManager" THEN servers_file ELSE models_file

\* A file that exists and that its loader's reading raises on
Malformed(loader, file) ==
    /\ file # Absent
    /\ IF loader = "MCPConfigManager"
       THEN ReadServers(file[1]).raised
       ELSE LoadModels(file).raised

\* The last loader found a malformed file
MalformedLoad ==
    last_load.loader # "none" /\ Malformed(last_load.loader, last_load.before)

\* C23: a loader that finds a configuration file it cannot load raises and
\* the startup stops, for the tool-server configuration as for the model
\* configuration, and the file is left as it was found.
C23_MalformedConfigIsFatal ==
    MalformedLoad =>
        /\ last_load.raised
        /\ startup = "failed"
        /\ FileOf(last_load.loader) = last_load.before

\* The model configuration's half: ModelManager raises on every file it
\* cannot load, the absent one included, and constructs no manager
ModelConfigFailureIsFatal ==
    (last_load.loader = "ModelManager" /\ LoadModels(last_load.before).raised) =>
        last_load.raised /\ startup = "failed" /\ models = Absent

=============================================================================
